---------------------------- MODULE Spec2Model ----------------------------
(***************************************************************************)
(* MarkdownServer (src/python/server.py): a GET handler that dispatches    *)
(* on the path of the request target to the file-tree API, the             *)
(* file-content API, or static serving, over a read-only file system.      *)
(*                                                                         *)
(* Text (request targets, path strings, file names) is a sequence of       *)
(* one-character strings, so that endswith, os.path.join, urlparse and     *)
(* parse_qs are computed on characters.  File contents and response        *)
(* bodies are sequences of octets (0..255).                                *)
(***************************************************************************)
EXTENDS Integers, Sequences, FiniteSets, TLC

(***************************************************************************)
(* Limits of the environment, scaled down.  MaxSymlinks is the number of   *)
(* symbolic links the operating system follows in one path lookup before   *)
(* it fails with ELOOP (40 on Linux); RecursionLimit is the number of      *)
(* nested build_file_tree calls the interpreter allows before it raises    *)
(* RecursionError (about 1000 in CPython).                                 *)
(***************************************************************************)
MaxSymlinks == 2

RecursionLimit == 8

(***************************************************************************)
(* String literals of server.py, as character sequences.                   *)
(***************************************************************************)
S_samples == <<"s", "a", "m", "p", "l", "e", "s">>

S_md == <<".", "m", "d">>

S_api_files == <<"/", "a", "p", "i", "/", "f", "i", "l", "e", "s">>

S_api_file == <<"/", "a", "p", "i", "/", "f", "i", "l", "e">>

S_root == <<"/">>

S_index_html == <<"/", "i", "n", "d", "e", "x", ".", "h", "t", "m", "l">>

S_path == <<"p", "a", "t", "h">>

(***************************************************************************)
(* String helpers: str.endswith, str.find, str.split on one character.     *)
(***************************************************************************)
EndsWith(s, suffix) ==
    /\ Len(s) >= Len(suffix)
    /\ SubSeq(s, Len(s) - Len(suffix) + 1, Len(s)) = suffix

\* s.find(c, from): the index of the first occurrence of character c in s at
\* or after from; 0 if there is none.
FindFrom(s, c, from) ==
    LET hits == {i \in from..Len(s) : s[i] = c}
    IN  IF hits = {} THEN 0 ELSE CHOOSE i \in hits : \A j \in hits : i <= j

\* s.rfind(c): the index of the last occurrence of c in s up to upto; 0 if none.
RFind(s, c, upto) ==
    LET hits == {i \in 1..upto : s[i] = c}
    IN  IF hits = {} THEN 0 ELSE CHOOSE i \in hits : \A j \in hits : i >= j

\* s.split(c): the pieces between occurrences of c (always at least one piece).
Split(s, c) ==
    LET cuts == {0, Len(s) + 1} \cup {i \in 1..Len(s) : s[i] = c}
        Cut(k) == CHOOSE p \in cuts : Cardinality({q \in cuts : q < p}) = k
    IN  [k \in 1..(Cardinality(cuts) - 1) |-> SubSeq(s, Cut(k - 1) + 1, Cut(k) - 1)]

(***************************************************************************)
(* The file system.  A fixed universe of nodes; a file system state says   *)
(* which of them are present, what a.md holds, and in which order a        *)
(* directory lists its entries.  The server never writes to it.            *)
(*                                                                         *)
(*   /                      n_root                                         *)
(*   /k.md                  n_k      file outside the working directory    *)
(*   /w                     n_w      the process working directory         *)
(*   /w/index.html          n_index                                        *)
(*   /w/s.md                n_s      Markdown file beside samples          *)
(*   /w/samples             n_samples                                      *)
(*   /w/samples/a.md        n_a      content chosen per file system        *)
(*   /w/samples/b.txt       n_b                                            *)
(*   /w/samples/d.md        n_d      a directory whose name ends in .md    *)
(*   /w/samples/sub         n_sub                                          *)
(*   /w/samples/sub/c.md    n_c                                            *)
(*   /w/samples/sub/e       n_e      directory, empty unless back exists   *)
(*   /w/samples/sub/up      n_up     symlink to /w/samples                 *)
(*   /w/samples/sub/e/back  n_back   symlink to /w/samples                 *)
(***************************************************************************)
Node ==
    {"n_root", "n_k", "n_w", "n_index", "n_s", "n_samples", "n_a", "n_b",
     "n_d", "n_sub", "n_c", "n_e", "n_up", "n_back"}

Name(n) ==
    CASE n = "n_root" -> <<>>
      [] n = "n_k" -> <<"k", ".", "m", "d">>
      [] n = "n_w" -> <<"w">>
      [] n = "n_index" -> <<"i", "n", "d", "e", "x", ".", "h", "t", "m", "l">>
      [] n = "n_s" -> <<"s", ".", "m", "d">>
      [] n = "n_samples" -> <<"s", "a", "m", "p", "l", "e", "s">>
      [] n = "n_a" -> <<"a", ".", "m", "d">>
      [] n = "n_b" -> <<"b", ".", "t", "x", "t">>
      [] n = "n_d" -> <<"d", ".", "m", "d">>
      [] n = "n_sub" -> <<"s", "u", "b">>
      [] n = "n_c" -> <<"c", ".", "m", "d">>
      [] n = "n_e" -> <<"e">>
      [] n = "n_up" -> <<"u", "p">>
      [] n = "n_back" -> <<"b", "a", "c", "k">>

Kind(n) ==
    IF n \in {"n_root", "n_w", "n_samples", "n_d", "n_sub", "n_e"} THEN "dir"
    ELSE IF n \in {"n_up", "n_back"} THEN "link"
    ELSE "file"

Parent(n) ==
    CASE n \in {"n_root", "n_k", "n_w"} -> "n_root"
      [] n \in {"n_index", "n_s", "n_samples"} -> "n_w"
      [] n \in {"n_a", "n_b", "n_d", "n_sub"} -> "n_samples"
      [] n \in {"n_c", "n_e", "n_up"} -> "n_sub"
      [] n = "n_back" -> "n_e"

\* The directory a symbolic link resolves to.
LinkTarget(n) == "n_samples"

\* The process working directory, against which relative paths are looked up.
Cwd == "n_w"

\* The order in which a directory's entries are stored (os.listdir returns
\* them in this order, or in the reverse of it: see ListDir).
DirOrder ==
    <<"n_k", "n_w", "n_index", "n_s", "n_samples", "n_a", "n_b", "n_d",
      "n_sub", "n_c", "n_e", "n_up", "n_back">>

\* File contents, as octets.  "H\r\nH", "#H", e-acute in UTF-8, an octet that
\* is not UTF-8, the empty file, and a lone carriage return.  Octets of the
\* three- and four-octet UTF-8 forms (0xE0..0xF4) do not occur.
Contents ==
    { <<35, 72>>, <<72, 13, 10, 72>>, <<195, 169>>, <<255>>, <<>>, <<72, 13>> }

Outside == {"n_root", "n_k", "n_w", "n_index", "n_s"}

InSamples == {"n_samples", "n_a", "n_b", "n_d", "n_sub", "n_c", "n_e"}

FileSystems ==
    \* the complete tree, no symbolic links, every content of a.md, both orders
    { [present |-> Outside \cup InSamples, contentA |-> c, rev |-> r] :
          c \in Contents, r \in BOOLEAN }
    \* no samples directory at all
    \cup { [present |-> Outside, contentA |-> <<>>, rev |-> FALSE] }
    \* samples holds only a non-Markdown file
    \cup { [present |-> Outside \cup {"n_samples", "n_b"},
            contentA |-> <<>>, rev |-> FALSE] }
    \* a directory symlink cycle: samples/sub/up -> samples
    \cup { [present |-> Outside \cup InSamples \cup {"n_up"},
            contentA |-> <<35, 72>>, rev |-> FALSE] }
    \* a longer cycle: samples/sub/e/back -> samples
    \cup { [present |-> Outside \cup InSamples \cup {"n_back"},
            contentA |-> <<35, 72>>, rev |-> FALSE] }

FileContent(f, n) ==
    CASE n = "n_a" -> f.contentA
      [] n = "n_b" -> <<120>>
      [] n = "n_c" -> <<99>>
      [] n = "n_s" -> <<83>>
      [] n = "n_k" -> <<75>>
      [] n = "n_index" -> <<105, 100, 120>>
      [] OTHER -> <<>>

\* The entry called name in directory d, as a set of at most one node.
Lookup(f, d, name) == {n \in f.present : n # "n_root" /\ Parent(n) = d /\ Name(n) = name}

(***************************************************************************)
(* Path lookup by the operating system (what os.stat, os.listdir and open  *)
(* do with a path string): components separated by "/", an absolute path   *)
(* starts at the root and a relative one at the working directory, "" and  *)
(* "." stay, ".." goes to the parent, every symbolic link met is followed  *)
(* and counted, and the lookup fails (ENOENT, ENOTDIR, ELOOP) by           *)
(* returning no node.                                                      *)
(***************************************************************************)
RECURSIVE WalkPath(_, _, _, _)
WalkPath(f, cur, comps, hops) ==
    IF comps = <<>> THEN {cur}
    ELSE IF Kind(cur) # "dir" THEN {}
    ELSE IF Head(comps) = <<>> \/ Head(comps) = <<".">>
         THEN WalkPath(f, cur, Tail(comps), hops)
    ELSE IF Head(comps) = <<".", ".">>
         THEN WalkPath(f, Parent(cur), Tail(comps), hops)
    ELSE UNION { IF Kind(n) = "link"
                 THEN IF hops + 1 > MaxSymlinks THEN {}
                      ELSE WalkPath(f, LinkTarget(n), Tail(comps), hops + 1)
                 ELSE WalkPath(f, n, Tail(comps), hops) :
                 n \in Lookup(f, cur, Head(comps)) }

Resolve(f, path) ==
    IF path = <<>> THEN {}
    ELSE WalkPath(f, IF Head(path) = "/" THEN "n_root" ELSE Cwd, Split(path, "/"), 0)

\* os.path.exists, os.path.isdir, os.path.isfile: False when the lookup fails.
exists(f, path) == Resolve(f, path) # {}

isdir(f, path) == \E n \in Resolve(f, path) : Kind(n) = "dir"

isfile(f, path) == \E n \in Resolve(f, path) : Kind(n) = "file"

\* posixpath.join(a, b): an absolute b discards a.
join(a, b) ==
    IF b # <<>> /\ Head(b) = "/" THEN b
    ELSE IF a = <<>> \/ a[Len(a)] = "/" THEN a \o b
    ELSE a \o <<"/">> \o b

\* os.listdir(path): the names in the directory, in its stored order or the
\* reverse.  Only called on a path that is a directory.
Reverse(s) == [i \in 1..Len(s) |-> s[Len(s) + 1 - i]]

ListDir(f, path) ==
    LET d == CHOOSE n \in Resolve(f, path) : TRUE
        IsEntry(n) == n \in f.present /\ Parent(n) = d
        nodes == SelectSeq(DirOrder, IsEntry)
        names == [i \in 1..Len(nodes) |-> Name(nodes[i])]
    IN  IF f.rev THEN Reverse(names) ELSE names

(***************************************************************************)
(* urllib.parse.urlparse on a request target in origin form (one leading   *)
(* "/", no scheme, no authority): the fragment is cut at the first "#",    *)
(* the query at the first "?", and the parameters at the first ";" of the  *)
(* last path segment.                                                      *)
(***************************************************************************)
Before(s, c) == LET i == FindFrom(s, c, 1) IN IF i = 0 THEN s ELSE SubSeq(s, 1, i - 1)

After(s, c) == LET i == FindFrom(s, c, 1) IN IF i = 0 THEN <<>> ELSE SubSeq(s, i + 1, Len(s))

urlparse(url) ==
    LET nofrag == Before(url, "#")
        u == Before(nofrag, "?")
        i == FindFrom(u, ";", RFind(u, "/", Len(u)) + 1)
    IN  [path |-> IF i = 0 THEN u ELSE SubSeq(u, 1, i - 1),
         params |-> IF i = 0 THEN <<>> ELSE SubSeq(u, i + 1, Len(u)),
         query |-> After(nofrag, "?"),
         fragment |-> After(url, "#")]

(***************************************************************************)
(* urllib.parse.parse_qs: fields separated by "&", name and value by the   *)
(* first "="; a field without "=" or with an empty value is dropped        *)
(* (keep_blank_values is False); "+" reads as a space.  Percent escapes    *)
(* are not modelled: no request target of the model holds "%".  The        *)
(* result is the list of (name, value) pairs in order; query[k] is the     *)
(* list of the values of the pairs named k.                                *)
(***************************************************************************)
PlusToSpace(s) == [i \in 1..Len(s) |-> IF s[i] = "+" THEN " " ELSE s[i]]

RECURSIVE QslFields(_)
QslFields(fields) ==
    IF fields = <<>> THEN <<>>
    ELSE LET nv == Head(fields)
             eq == FindFrom(nv, "=", 1)
             value == SubSeq(nv, eq + 1, Len(nv))
         IN  IF eq = 0 \/ value = <<>> THEN QslFields(Tail(fields))
             ELSE <<[name |-> PlusToSpace(SubSeq(nv, 1, eq - 1)),
                     value |-> PlusToSpace(value)]>> \o QslFields(Tail(fields))

parse_qs(qs) == QslFields(Split(qs, "&"))

\* key in query
HasKey(query, key) == \E i \in 1..Len(query) : query[i].name = key

\* query[key][0]
FirstValue(query, key) ==
    LET i == CHOOSE j \in 1..Len(query) :
                 /\ query[j].name = key
                 /\ \A k \in 1..(j - 1) : query[k].name # key
    IN  query[i].value

(***************************************************************************)
(* The response under construction.  send_response and send_header add to  *)
(* the header buffer; end_headers flushes it to the client (ended), after  *)
(* which the status and headers are committed.  source says what the body  *)
(* octets are: "file" (a file's text), "json" (the tree), "error" (the     *)
(* page send_error writes; its HTML is stood for by the status digits),    *)
(* "static" (a file copied by the static handler), "listing".              *)
(***************************************************************************)
NoResponse ==
    [status |-> 0, headers |-> <<>>, ended |-> FALSE, body |-> <<>>, source |-> "none"]

send_response(r, code) ==
    [r EXCEPT !.status = code,
              !.headers = <<<<"Server", "SimpleHTTP">>, <<"Date", "now">>>>]

send_header(r, keyword, value) ==
    [r EXCEPT !.headers = Append(@, <<keyword, value>>)]

\* BaseHTTPRequestHandler.end_headers: flush the header buffer.
BaseEndHeaders(r) == [r EXCEPT !.ended = TRUE]

\* Variant: end_headers that adds no header.
end_headers_without_cors(r) == BaseEndHeaders(r)

\* MarkdownServer.end_headers (lines 60-63).
end_headers(r) ==
    BaseEndHeaders(send_header(r, "Access-Control-Allow-Origin", "*"))

\* BaseHTTPRequestHandler.send_error(code, message), through self.end_headers.
send_error(r, code, message) ==
    LET h == send_header(
                 send_header(
                     send_header(send_response(r, code), "Connection", "close"),
                     "Content-Type", "text/html;charset=utf-8"),
                 "Content-Length", "n")
        digits == <<48 + (code \div 100), 48 + ((code \div 10) % 10), 48 + (code % 10)>>
    IN  [end_headers(h) EXCEPT !.body = digits, !.source = "error"]

(***************************************************************************)
(* open(file_path, 'r', encoding='utf-8').read(): the octets are decoded   *)
(* as UTF-8 (one- and two-octet forms; any other octet of the model's      *)
(* contents is invalid and raises UnicodeDecodeError), and, since the file *)
(* is opened in text mode with the default newline=None, "\r\n" and a      *)
(* lone "\r" are translated to "\n".  str.encode('utf-8') is the inverse   *)
(* of the decoding only.                                                   *)
(***************************************************************************)
RECURSIVE Utf8Decode(_)
Utf8Decode(b) ==
    IF b = <<>> THEN [ok |-> TRUE, text |-> <<>>]
    ELSE IF b[1] < 128
         THEN LET rest == Utf8Decode(Tail(b))
              IN  [ok |-> rest.ok, text |-> <<b[1]>> \o rest.text]
    ELSE IF b[1] >= 194 /\ b[1] <= 223 /\ Len(b) >= 2 /\ b[2] >= 128 /\ b[2] <= 191
         THEN LET rest == Utf8Decode(Tail(Tail(b)))
              IN  [ok |-> rest.ok,
                   text |-> <<(b[1] - 192) * 64 + (b[2] - 128)>> \o rest.text]
    ELSE [ok |-> FALSE, text |-> <<>>]

RECURSIVE UniversalNewlines(_)
UniversalNewlines(t) ==
    IF t = <<>> THEN <<>>
    ELSE IF t[1] = 13
         THEN IF Len(t) >= 2 /\ t[2] = 10
              THEN <<10>> \o UniversalNewlines(Tail(Tail(t)))
              ELSE <<10>> \o UniversalNewlines(Tail(t))
    ELSE <<t[1]>> \o UniversalNewlines(Tail(t))

\* f.read() of a file opened with open(file_path, 'r', encoding='utf-8')
TextRead(octets) ==
    LET d == Utf8Decode(octets)
    IN  [ok |-> d.ok, text |-> IF d.ok THEN UniversalNewlines(d.text) ELSE <<>>]

RECURSIVE Utf8Encode(_)
Utf8Encode(t) ==
    IF t = <<>> THEN <<>>
    ELSE (IF t[1] < 128 THEN <<t[1]>>
          ELSE <<192 + (t[1] \div 64), 128 + (t[1] % 64)>>) \o Utf8Encode(Tail(t))

(***************************************************************************)
(* The file tree: a dict, kept as the list of its items in insertion       *)
(* order.  An item is [key, leaf, sub]: leaf is TRUE for the value True,   *)
(* and otherwise sub is the nested dict.                                   *)
(***************************************************************************)
Leaf(key) == [key |-> key, leaf |-> TRUE, sub |-> <<>>]

SubTree(key, t) == [key |-> key, leaf |-> FALSE, sub |-> t]

\* tree[item.key] = value
DictSet(t, item) ==
    IF \E i \in 1..Len(t) : t[i].key = item.key
    THEN [i \in 1..Len(t) |-> IF t[i].key = item.key THEN item ELSE t[i]]
    ELSE Append(t, item)

Keys(t) == {t[i].key : i \in 1..Len(t)}

\* ord() of the characters that occur in names and in JSON punctuation.
Ord(c) ==
    CASE c = " " -> 32
      [] c = "\"" -> 34
      [] c = "," -> 44
      [] c = "." -> 46
      [] c = ":" -> 58
      [] c = "a" -> 97
      [] c = "b" -> 98
      [] c = "c" -> 99
      [] c = "d" -> 100
      [] c = "e" -> 101
      [] c = "h" -> 104
      [] c = "i" -> 105
      [] c = "k" -> 107
      [] c = "l" -> 108
      [] c = "m" -> 109
      [] c = "n" -> 110
      [] c = "p" -> 112
      [] c = "r" -> 114
      [] c = "s" -> 115
      [] c = "t" -> 116
      [] c = "u" -> 117
      [] c = "w" -> 119
      [] c = "x" -> 120
      [] c = "{" -> 123
      [] c = "}" -> 125

\* json.dumps(file_tree): {"key": value, ...} with True written as true.
RECURSIVE JsonItems(_)
JsonItems(t) ==
    IF t = <<>> THEN <<>>
    ELSE LET it == Head(t)
             value == IF it.leaf THEN <<"t", "r", "u", "e">>
                      ELSE <<"{">> \o JsonItems(it.sub) \o <<"}">>
         IN  <<"\"">> \o it.key \o <<"\"", ":", " ">> \o value
             \o (IF Len(t) > 1 THEN <<",", " ">> ELSE <<>>)
             \o JsonItems(Tail(t))

dumps(t) == <<"{">> \o JsonItems(t) \o <<"}">>

\* str.encode() of text made of the characters above.
encode(s) == [i \in 1..Len(s) |-> Ord(s[i])]

(***************************************************************************)
(* SimpleHTTPRequestHandler.do_GET of the standard library, which line 42  *)
(* calls: translate_path maps self.path below the working directory        *)
(* (query and fragment cut, the path normalised, "." and ".." dropped),    *)
(* and send_head answers 301 for a directory named without its final "/",  *)
(* serves index.html or index.htm of a directory or else lists it, and     *)
(* answers 404 when the file cannot be opened.  Every response passes      *)
(* through self.end_headers.  The text of a directory listing is not       *)
(* modelled.                                                               *)
(***************************************************************************)
RECURSIVE NormWords(_, _)
NormWords(comps, acc) ==
    IF comps = <<>> THEN acc
    ELSE LET c == Head(comps)
         IN  IF c = <<>> \/ c = <<".">> THEN NormWords(Tail(comps), acc)
             ELSE IF c = <<".", ".">>
                  THEN NormWords(Tail(comps),
                                 IF acc = <<>> THEN acc ELSE SubSeq(acc, 1, Len(acc) - 1))
             ELSE NormWords(Tail(comps), Append(acc, c))

RECURSIVE JoinWords(_, _)
JoinWords(base, words) ==
    IF words = <<>> THEN base
    ELSE JoinWords(join(base, Head(words)), Tail(words))

translate_path(p) ==
    LET p1 == Before(Before(p, "?"), "#")
        trailing == EndsWith(p1, <<"/">>)
        local == JoinWords(<<".">>, NormWords(Split(p1, "/"), <<>>))
    IN  IF trailing THEN local \o <<"/">> ELSE local

ServeFile(r, f, local) ==
    IF EndsWith(local, <<"/">>) \/ ~isfile(f, local)
    THEN send_error(r, 404, "File not found")
    ELSE LET n == CHOOSE x \in Resolve(f, local) : TRUE
             h == send_header(
                      send_header(
                          send_header(send_response(r, 200), "Content-type", "guessed"),
                          "Content-Length", "n"),
                      "Last-Modified", "mtime")
         IN  [end_headers(h) EXCEPT !.body = FileContent(f, n), !.source = "static"]

static_do_GET(r, f, p) ==
    LET local == translate_path(p)
        index_html == join(local, Tail(S_index_html))
        index_htm == join(local, SubSeq(S_index_html, 2, Len(S_index_html) - 1))
    IN  IF isdir(f, local)
        THEN IF ~EndsWith(Before(Before(p, "#"), "?"), <<"/">>)
             THEN end_headers(
                      send_header(
                          send_header(send_response(r, 301), "Location", "slash"),
                          "Content-Length", "0"))
             ELSE IF isfile(f, index_html) THEN ServeFile(r, f, index_html)
             ELSE IF isfile(f, index_htm) THEN ServeFile(r, f, index_htm)
             ELSE [end_headers(
                       send_header(
                           send_header(send_response(r, 200), "Content-type", "text/html"),
                           "Content-Length", "n"))
                   EXCEPT !.source = "listing"]
        ELSE ServeFile(r, f, local)

(***************************************************************************)
(* The conditions of do_GET and build_file_tree.  Each is preceded by a    *)
(* faulty variant of it (a plausible slip in that line of the code); a     *)
(* property that is to say something about the line must fail when the     *)
(* variant takes its place.                                                *)
(***************************************************************************)
\* Variant: dispatching on self.path with its query string.
DispatchPathWithQuery(p) == p

\* parsed_path.path, on which do_GET dispatches (lines 11, 14, 23, 38).
DispatchPath(p) == urlparse(p).path

\* Variant: the extension is not tested.
FileCheckWithoutExtension(f, file_path) == exists(f, file_path)

\* os.path.exists(file_path) and file_path.endswith('.md') (line 27).
FileCheck(f, file_path) == exists(f, file_path) /\ EndsWith(file_path, S_md)

\* Variant: open() without the with block, the file left as it was.
WithExitLeavesOpen(h) == h

\* Leaving the block of "with open(...) as f" (lines 31-32), normally or by
\* an exception: the file is closed.
WithExit(h) == "closed"

\* Variant: no test for a missing root_dir.
RootMissingNeverChecked(f, root_dir) == FALSE

\* not os.path.exists(root_dir) (line 46).
RootMissing(f, root_dir) == ~exists(f, root_dir)

\* Variant: every file is listed.
IsMarkdownAnyFile(item) == TRUE

\* item.endswith('.md') (line 54).
IsMarkdown(item) == EndsWith(item, S_md)

\* Variant: os.path.exists in place of os.path.isdir.
ItemIsDirAnyEntry(f, item_path) == exists(f, item_path)

\* os.path.isdir(item_path) (line 51).
ItemIsDir(f, item_path) == isdir(f, item_path)

(***************************************************************************)
(* Request targets a client sends.                                         *)
(***************************************************************************)
WithQuery(p, q) == p \o <<"?">> \o q

PathParam(v) == S_path \o <<"=">> \o v

Targets ==
    { S_api_files,
      WithQuery(S_api_files, <<"x", "=", "1">>),
      S_api_files \o <<"/">>,
      S_api_file,
      WithQuery(S_api_file, <<"x", "=", "1">>),
      WithQuery(S_api_file, PathParam(<<>>)),
      WithQuery(S_api_file, PathParam(<<"a", ".", "m", "d">>)),
      WithQuery(S_api_file \o <<";", "v">>, PathParam(<<"a", ".", "m", "d">>)),
      WithQuery(S_api_file, PathParam(<<"b", ".", "t", "x", "t">>)),
      WithQuery(S_api_file, PathParam(<<"z", "z", ".", "m", "d">>)),
      WithQuery(S_api_file, PathParam(<<"z", "z", ".", "m", "d">>) \o <<"&">>
                                \o PathParam(<<"a", ".", "m", "d">>)),
      WithQuery(S_api_file, PathParam(<<"d", ".", "m", "d">>)),
      WithQuery(S_api_file, PathParam(<<"s", "u", "b", "/", "c", ".", "m", "d">>)),
      WithQuery(S_api_file, PathParam(<<".", ".", "/", "s", ".", "m", "d">>)),
      WithQuery(S_api_file, PathParam(<<"/", "k", ".", "m", "d">>)),
      S_root,
      WithQuery(S_root, PathParam(<<"a", ".", "m", "d">>)),
      S_index_html,
      <<"/", "n", "o", "p", "e">>,
      <<"/", "s", ".", "m", "d">>,
      <<"/", "s", "a", "m", "p", "l", "e", "s">>,
      <<"/", "s", "a", "m", "p", "l", "e", "s", "/">> }

(***************************************************************************)
(* State.                                                                  *)
(*   fs         the file system                                            *)
(*   pc         where the handler is: idle, do_GET, tree (inside           *)
(*              build_file_tree), open, read, write (the with block of     *)
(*              the file branch), done (do_GET returned), fault (an        *)
(*              exception left do_GET)                                     *)
(*   request    the request target as received                             *)
(*   path       self.path                                                  *)
(*   branch     which branch of do_GET ran: files, file, static            *)
(*   file_path  file_path of the file branch                               *)
(*   resp       the response                                               *)
(*   f          the file object of the with block: none, open, closed      *)
(*   opened     the file system node open() opened, if any                 *)
(*   data       the text f.read() returned                                 *)
(*   stack      the activations of build_file_tree, outermost first        *)
(*   file_tree  what build_file_tree('samples') returned                   *)
(***************************************************************************)
VARIABLES fs, pc, request, path, branch, file_path, resp, f, opened, data, stack,
          file_tree

vars ==
    <<fs, pc, request, path, branch, file_path, resp, f, opened, data, stack, file_tree>>

Init ==
    /\ fs \in FileSystems
    /\ pc = "idle"
    /\ request = <<>>
    /\ path = <<>>
    /\ branch = "none"
    /\ file_path = <<>>
    /\ resp = NoResponse
    /\ f = "none"
    /\ opened = {}
    /\ data = <<>>
    /\ stack = <<>>
    /\ file_tree = <<>>

\* A new activation of build_file_tree(root_dir): tree = {}.
Frame(root_dir) == [root_dir |-> root_dir, phase |-> "enter", items |-> <<>>, tree |-> <<>>]

\* A GET request arrives and a handler object is made for it.
Receive(t) ==
    /\ pc \in {"idle", "done", "fault"}
    /\ pc' = "do_GET"
    /\ request' = t
    /\ path' = t
    /\ branch' = "none"
    /\ file_path' = <<>>
    /\ resp' = NoResponse
    /\ f' = "none"
    /\ opened' = {}
    /\ data' = <<>>
    /\ stack' = <<>>
    /\ file_tree' = <<>>
    /\ UNCHANGED fs

\* do_GET up to the call of build_file_tree (line 18), the open of the with
\* block (line 31), or its return (lines 34-35 and 42).
do_GET ==
    /\ pc = "do_GET"
    /\ LET parsed_path == DispatchPath(path)
           query == parse_qs(urlparse(path).query)
           joined == IF HasKey(query, S_path)
                     THEN join(S_samples, FirstValue(query, S_path))
                     ELSE <<>>
           rewritten == IF parsed_path = S_root THEN S_index_html ELSE path
       IN  IF parsed_path = S_api_files
           THEN /\ branch' = "files"
                /\ resp' = end_headers(
                               send_header(send_response(resp, 200),
                                           "Content-Type", "application/json"))
                /\ stack' = <<Frame(S_samples)>>
                /\ pc' = "tree"
                /\ UNCHANGED <<path, file_path>>
           ELSE IF parsed_path = S_api_file
           THEN /\ branch' = "file"
                /\ file_path' = joined
                /\ IF HasKey(query, S_path) /\ FileCheck(fs, joined)
                   THEN /\ resp' = end_headers(
                                       send_header(send_response(resp, 200),
                                                   "Content-Type",
                                                   "text/plain; charset=utf-8"))
                        /\ pc' = "open"
                   ELSE /\ resp' = send_error(resp, 404, "File not found")
                        /\ pc' = "done"
                /\ UNCHANGED <<path, stack>>
           ELSE /\ branch' = "static"
                /\ path' = rewritten
                /\ resp' = static_do_GET(resp, fs, rewritten)
                /\ pc' = "done"
                /\ UNCHANGED <<file_path, stack>>
    /\ UNCHANGED <<fs, request, f, opened, data, file_tree>>

\* build_file_tree, lines 45-47 and the os.listdir of line 49: a missing
\* root_dir returns the empty tree; listing what is not a directory raises.
TreeEnter ==
    /\ pc = "tree"
    /\ stack[Len(stack)].phase = "enter"
    /\ LET top == stack[Len(stack)]
       IN  IF RootMissing(fs, top.root_dir)
           THEN /\ stack' = [stack EXCEPT ![Len(stack)].phase = "return"]
                /\ pc' = pc
           ELSE IF ~isdir(fs, top.root_dir)
           THEN /\ pc' = "fault"
                /\ stack' = stack
           ELSE /\ stack' = [stack EXCEPT ![Len(stack)].phase = "loop",
                                          ![Len(stack)].items = ListDir(fs, top.root_dir)]
                /\ pc' = pc
    /\ UNCHANGED <<fs, request, path, branch, file_path, resp, f, opened, data, file_tree>>

\* One iteration of the for loop, lines 49-56.  The recursive call of line 53
\* starts a new activation, or raises RecursionError at the interpreter's limit.
TreeItem ==
    /\ pc = "tree"
    /\ stack[Len(stack)].phase = "loop"
    /\ stack[Len(stack)].items # <<>>
    /\ LET top == stack[Len(stack)]
           item == Head(top.items)
           item_path == join(top.root_dir, item)
       IN  IF ItemIsDir(fs, item_path)
           THEN IF Len(stack) >= RecursionLimit
                THEN /\ pc' = "fault"
                     /\ stack' = stack
                ELSE /\ stack' = Append(stack, Frame(item_path))
                     /\ pc' = pc
           ELSE /\ stack' = [stack EXCEPT
                                ![Len(stack)].items = Tail(top.items),
                                ![Len(stack)].tree =
                                    IF IsMarkdown(item) THEN DictSet(top.tree, Leaf(item))
                                    ELSE top.tree]
                /\ pc' = pc
    /\ UNCHANGED <<fs, request, path, branch, file_path, resp, f, opened, data, file_tree>>

\* return tree (lines 47 and 58): into tree[item] of the caller (line 53), or
\* into file_tree of do_GET, which writes it as JSON and returns (lines 18-20).
TreeReturn ==
    /\ pc = "tree"
    /\ LET top == stack[Len(stack)]
       IN  /\ \/ top.phase = "return"
              \/ top.phase = "loop" /\ top.items = <<>>
           /\ IF Len(stack) = 1
              THEN /\ file_tree' = top.tree
                   /\ resp' = [resp EXCEPT !.body = encode(dumps(top.tree)),
                                           !.source = "json"]
                   /\ stack' = <<>>
                   /\ pc' = "done"
              ELSE LET caller == stack[Len(stack) - 1]
                       rest == SubSeq(stack, 1, Len(stack) - 1)
                   IN  /\ stack' = [rest EXCEPT
                                       ![Len(rest)].tree =
                                           DictSet(caller.tree,
                                                   SubTree(Head(caller.items), top.tree)),
                                       ![Len(rest)].items = Tail(caller.items)]
                       /\ UNCHANGED <<file_tree, resp, pc>>
    /\ UNCHANGED <<fs, request, path, branch, file_path, f, opened, data>>

\* open(file_path, 'r', encoding='utf-8'), line 31: raises for what is not a
\* file that can be opened (IsADirectoryError for a directory).
OpenFile ==
    /\ pc = "open"
    /\ IF isfile(fs, file_path)
       THEN /\ f' = "open"
            /\ opened' = Resolve(fs, file_path)
            /\ pc' = "read"
       ELSE /\ pc' = "fault"
            /\ UNCHANGED <<f, opened>>
    /\ UNCHANGED <<fs, request, path, branch, file_path, resp, data, stack, file_tree>>

\* f.read(), line 32: UnicodeDecodeError leaves the with block.
ReadFile ==
    /\ pc = "read"
    /\ LET n == CHOOSE x \in opened : TRUE
           r == TextRead(FileContent(fs, n))
       IN  IF r.ok
           THEN /\ data' = r.text
                /\ pc' = "write"
                /\ f' = f
           ELSE /\ f' = WithExit(f)
                /\ pc' = "fault"
                /\ data' = data
    /\ UNCHANGED <<fs, request, path, branch, file_path, resp, opened, stack, file_tree>>

\* self.wfile.write(...encode('utf-8')), line 32, then the end of the with
\* block and the return of line 33.  The write raises when the client has gone.
WriteBody ==
    /\ pc = "write"
    /\ \E sent \in BOOLEAN :
          IF sent
          THEN /\ resp' = [resp EXCEPT !.body = Utf8Encode(data), !.source = "file"]
               /\ pc' = "done"
          ELSE /\ resp' = resp
               /\ pc' = "fault"
    /\ f' = WithExit(f)
    /\ UNCHANGED <<fs, request, path, branch, file_path, opened, data, stack, file_tree>>

Next ==
    \/ \E t \in Targets : Receive(t)
    \/ do_GET
    \/ TreeEnter
    \/ TreeItem
    \/ TreeReturn
    \/ OpenFile
    \/ ReadFile
    \/ WriteBody

Spec == Init /\ [][Next]_vars

\* build_file_tree, once called, keeps running (a sequential program).
Walking == TreeEnter \/ TreeItem \/ TreeReturn

FairSpec == Spec /\ WF_vars(Walking)

(***************************************************************************)
(* Properties.                                                             *)
(***************************************************************************)
\* Node n is d or lies below it in the directory tree.
RECURSIVE Below(_, _)
Below(n, d) ==
    IF n = d THEN TRUE
    ELSE IF n = "n_root" THEN FALSE
    ELSE Below(Parent(n), d)

HasHeader(r, keyword, value) ==
    \E i \in 1..Len(r.headers) : r.headers[i] = <<keyword, value>>

\* The file system holds a directory entry that leads back to an ancestor.
HasCycle(fsys) == \E n \in fsys.present : Kind(n) = "link"

\* C1: a GET /api/file answered 200 with file content only ever carries the
\* content of a file that lies under the root directory samples, whatever the
\* path parameter (".." segments, an absolute path).
C1_NoContentOutsideRoot ==
    (branch = "file" /\ resp.status = 200 /\ resp.source = "file")
        => \A n \in opened : n # "n_samples" /\ Below(n, "n_samples")

\* C2: in the /api/file branch a 200 status is committed only if the resolved
\* path is a regular file (not a directory) whose name ends with .md.
C2_SuccessOnlyForRegularMarkdownFile ==
    (branch = "file" /\ resp.status = 200 /\ resp.ended)
        => /\ isfile(fs, file_path)
           /\ \A n \in Resolve(fs, file_path) : EndsWith(Name(n), S_md)

\* C3: a GET /api/file whose path parameter is absent, or whose joined path
\* does not exist, or whose joined path does not end with .md (even when the
\* file exists) is answered by the one 404 of send_error; no file is opened
\* and no file content is written.
C3_FailureIs404 ==
    LET query == parse_qs(After(Before(request, "#"), "?"))
        joined == join(S_samples, FirstValue(query, S_path))
    IN  (/\ branch = "file"
         /\ \/ ~HasKey(query, S_path)
            \/ ~exists(fs, joined)
            \/ ~EndsWith(joined, S_md))
        => /\ pc = "done"
           /\ resp.status = 404
           /\ resp = send_error(NoResponse, 404, "File not found")
           /\ resp.source = "error"
           /\ opened = {}
           /\ f = "none"

C3_Witness ==
    /\ branch = "file"
    /\ exists(fs, file_path)
    /\ ~EndsWith(file_path, S_md)
    /\ resp.status = 404

\* C4: whenever GET /api/file has answered 200 and returned, the body octets
\* are exactly the octets of the addressed file (CR LF line endings included).
C4_BodyIsFileContent ==
    (branch = "file" /\ pc = "done" /\ resp.status = 200)
        => \A n \in opened : resp.body = FileContent(fs, n)

\* C5: every response whose header block has been terminated, on every branch
\* (tree 200, file 200, file 404, "/" rewritten, static serving and its own
\* errors), carries Access-Control-Allow-Origin: * in that block, added
\* last; and a handler that returns has terminated a header block.
C5_CorsOnEveryResponse ==
    /\ resp.ended =>
          /\ HasHeader(resp, "Access-Control-Allow-Origin", "*")
          /\ resp.headers[Len(resp.headers)] = <<"Access-Control-Allow-Origin", "*">>
    /\ pc = "done" => resp.ended
    /\ (resp.status # 0 /\ pc # "do_GET") => resp.ended

C5_Witness ==
    /\ branch = "static"
    /\ resp.status = 404
    /\ resp.ended
    /\ HasHeader(resp, "Access-Control-Allow-Origin", "*")

\* What C6 says the tree of directory d is: its keys are exactly the names of
\* the entries of d that are subdirectories or files named *.md; a
\* subdirectory maps to the tree of that subdirectory, a file to True.
RECURSIVE TreeMatches(_, _, _)
TreeMatches(fsys, t, d) ==
    LET listed == {n \in fsys.present :
                      /\ n # "n_root"
                      /\ Parent(n) = d
                      /\ \/ Kind(n) = "dir"
                         \/ Kind(n) = "file" /\ EndsWith(Name(n), S_md)}
    IN  /\ Keys(t) = {Name(n) : n \in listed}
        /\ Len(t) = Cardinality(listed)
        /\ \A i \in 1..Len(t) :
              \A n \in listed :
                  Name(n) = t[i].key =>
                      IF Kind(n) = "dir"
                      THEN ~t[i].leaf /\ TreeMatches(fsys, t[i].sub, n)
                      ELSE t[i].leaf

\* C6: for a directory structure (without links), build_file_tree('samples')
\* returns the mapping whose keys are exactly the subdirectories and the *.md
\* files of the directory, subdirectories mapped to their own trees (empty
\* ones included), files to True, everything else absent.
C6_TreeIsMarkdownTree ==
    (branch = "files" /\ pc = "done" /\ ~HasCycle(fs) /\ "n_samples" \in fs.present)
        => TreeMatches(fs, file_tree, "n_samples")

C6_Witness ==
    /\ branch = "files"
    /\ pc = "done"
    /\ ~HasCycle(fs)
    /\ "n_b" \in fs.present
    /\ Keys(file_tree) = {Name("n_a"), Name("n_d"), Name("n_sub")}

\* C7: when samples does not exist, build_file_tree returns the empty mapping
\* without raising, and GET /api/files answers 200 with the JSON text {}.
C7_MissingRootGivesEmptyJson ==
    (branch = "files" /\ "n_samples" \notin fs.present)
        => /\ pc # "fault"
           /\ Len(stack) <= 1
           /\ resp.status = 200
           /\ resp.ended
           /\ pc = "done" => (file_tree = <<>> /\ resp.body = <<123, 125>>)

C7_Witness ==
    /\ branch = "files"
    /\ "n_samples" \notin fs.present
    /\ pc = "done"
    /\ resp.body = <<123, 125>>

\* C8: the branch a request takes is decided by the path component of its
\* target alone: /api/files builds the tree, /api/file runs the file read and
\* never reaches static serving, / is served as /index.html, and every other
\* target goes unchanged to static serving.
C8_DispatchByPathOnly ==
    LET p == urlparse(request).path
    IN  branch # "none" =>
            /\ branch = "files" <=> p = S_api_files
            /\ branch = "file" <=> p = S_api_file
            /\ branch = "static" <=> p \notin {S_api_files, S_api_file}
            /\ branch = "static" =>
                  /\ path = IF p = S_root THEN S_index_html ELSE request
                  /\ resp = static_do_GET(NoResponse, fs, path)
            /\ branch = "file" => resp.source \in {"none", "file", "error"}
            /\ branch = "files" => resp.source \in {"none", "json"}

C8_Witness ==
    /\ branch = "static"
    /\ request # S_root
    /\ urlparse(request).path = S_root
    /\ path = S_index_html
    /\ resp.status = 200
    /\ resp.body = FileContent(fs, "n_index")

\* C9: the file opened by the /api/file branch is closed whenever the handler
\* has left do_GET, by return or by an exception (a read or decoding fault, a
\* fault while writing to the client); it is open only inside the with block.
C9_FileClosedOnExit ==
    /\ pc \in {"idle", "done", "fault"} => f # "open"
    /\ f = "open" => pc \in {"read", "write"}
    /\ (opened # {} /\ pc \in {"done", "fault"}) => f = "closed"

C9_Witness ==
    /\ pc = "fault"
    /\ opened # {}
    /\ data # <<>>
    /\ f = "closed"

\* The deepest nesting of symbolic-link names in a tree.
RECURSIVE LinkDepth(_)
LinkDepth(t) ==
    IF t = <<>> THEN 0
    ELSE LET it == Head(t)
             here == IF it.leaf THEN 0
                     ELSE (IF it.key \in {Name("n_up"), Name("n_back")} THEN 1 ELSE 0)
                          + LinkDepth(it.sub)
             rest == LinkDepth(Tail(t))
         IN  IF here > rest THEN here ELSE rest

=============================================================================
